---- MODULE Spec2Model ----
(***************************************************************************)
(* Model of packaging/run_inference.py: main() as a sequential state       *)
(* machine over a small file system.  Files are volumes (voxel array,      *)
(* spatial transform, header); file names are sequences of tokens so that  *)
(* str.replace, str.endswith, glob and sorted are computed, not assumed.   *)
(* packaging_utils (convert_filenames_to_nnunet_format, reorient_to_rpi,   *)
(* reorient_to_original_orientation) is not part of the sources at hand    *)
(* and is modelled from its specification (sections 4.1, 4.2, 4.4).        *)
(***************************************************************************)
EXTENDS Integers, Sequences, FiniteSets, TLC

VARIABLES pc, err, args, fs, fs0, model_dir, path_data_tmp,
          orig_orientation_dict, folds_avail, use_folds,
          out_folder, pred_files, idx

vars == <<pc, err, args, fs, fs0, model_dir, path_data_tmp,
          orig_orientation_dict, folds_avail, use_folds,
          out_folder, pred_files, idx>>

\* ------------------------------------------------------------ bounds
\* Largest number of volumes in the dataset directory.
MaxFiles == 2
\* Largest class index the inference engine may emit (0 background, 1 cord, 2 lesion).
MaxLabel == 2
\* Number of voxels along the long axis of every volume.
NVox == 3

\* ------------------------------------------------------------ names
EXT == ".nii.gz"

\* Base names (without extension) the dataset may hold.
BaseNames == { <<"a">>, <<"b">>, <<"a", "_pred">> }

\* f.endswith('.nii.gz') and the glob pattern '*.nii.gz'.
IsNii(name) == Len(name) >= 2 /\ name[Len(name)] = EXT

\* str.replace('.nii.gz', ins + '.nii.gz'): every occurrence is replaced.
RECURSIVE Replace(_, _)
Replace(name, ins) ==
  IF name = <<>> THEN <<>>
  ELSE (IF Head(name) = EXT THEN <<ins, EXT>> ELSE <<Head(name)>>)
       \o Replace(Tail(name), ins)

\* The same replacement on a whole path (a sequence of components).
ReplacePath(path, ins) == [i \in 1..Len(path) |-> Replace(path[i], ins)]

\* os.path.join(dir, name), os.path.basename(path)
Join(dir, name) == Append(dir, name)
Basename(path) == path[Len(path)]
Dirname(path) == SubSeq(path, 1, Len(path) - 1)

\* Rank of a token in Python's string order, for names that end in '.nii.gz':
\* '-' (45) < '.' (46) < '0' (48) < '_' (95) < 'a' (97) < 'b' (98), so
\* "_pred-lesion" < "_pred-sc" < "_pred" followed by '.', '_' or a letter.
TokRank(t) ==
  CASE t = EXT -> 0
    [] t = "_0000" -> 1
    [] t = "_pred-lesion" -> 2
    [] t = "_pred-sc" -> 3
    [] t = "_pred" -> 4
    [] t = "a" -> 5
    [] t = "b" -> 6
    [] OTHER -> 7

\* s < t in Python's string order.
RECURSIVE StrLess(_, _)
StrLess(s, t) ==
  IF t = <<>> THEN FALSE
  ELSE IF s = <<>> THEN TRUE
  ELSE IF Head(s) = Head(t) THEN StrLess(Tail(s), Tail(t))
  ELSE TokRank(Head(s)) < TokRank(Head(t))

\* sorted(S) for a set of names.
RECURSIVE Sorted(_)
Sorted(S) ==
  IF S = {} THEN <<>>
  ELSE LET m == CHOOSE x \in S : \A y \in S \ {x} : StrLess(x, y)
       IN <<m>> \o Sorted(S \ {m})

\* glob.glob(os.path.join(dir, '*.nii.gz')): the names in dir that match.
Glob(f, dir) == IF dir \in DOMAIN f THEN { n \in DOMAIN f[dir] : IsNii(n) } ELSE {}

\* ------------------------------------------------------------ file system
Put(f, k, v) == [x \in DOMAIN f \cup {k} |-> IF x = k THEN v ELSE f[x]]
Drop(f, k) == [x \in DOMAIN f \ {k} |-> f[x]]
NoFiles == [x \in {} |-> 0]

\* os.makedirs(dir, exist_ok=True) for a directory one level below an existing one.
MakeDirs(f, dir) == IF dir \in DOMAIN f THEN f ELSE Put(f, dir, NoFiles)

\* Writing a file (creating or overwriting it) in an existing directory.
WriteFile(f, dir, name, vol) == [f EXCEPT ![dir] = Put(f[dir], name, vol)]

\* ------------------------------------------------------------ volumes
\* A volume: shape[i] voxels along array axis i; axes[i] = <<p, s>> says that
\* array axis i runs along physical axis p in direction s; origin is the
\* physical position of voxel <<1,1,1>>; data maps voxel indices to values.
Box(shape) == { <<i, j, k>> : i \in 1..shape[1], j \in 1..shape[2], k \in 1..shape[3] }

\* The letter of a direction and the direction of a letter.
Letter(ax) ==
  CASE ax = <<1, 1>> -> "R" [] ax = <<1, -1>> -> "L"
    [] ax = <<2, 1>> -> "A" [] ax = <<2, -1>> -> "P"
    [] ax = <<3, 1>> -> "S" [] ax = <<3, -1>> -> "I"
Letters == {"R", "L", "A", "P", "S", "I"}
LetterAxis(l) == CHOOSE ax \in (1..3) \X {1, -1} : Letter(ax) = l

\* The orientation code of a volume, a pure function of its transform.
Code(vol) == [i \in 1..3 |-> Letter(vol.axes[i])]
ParseCode(code) == [i \in 1..3 |-> LetterAxis(code[i])]

\* The 48 orthogonal orientation codes.
AllCodes ==
  { c \in Letters \X Letters \X Letters :
      { LetterAxis(c[i])[1] : i \in 1..3 } = 1..3 }

\* The canonical code the model was trained with.
RPI == <<"R", "P", "I">>

\* The array axis of vol that runs along physical axis p.
AxisOf(vol, p) == CHOOSE i \in 1..3 : vol.axes[i][1] = p

\* The physical content of a volume: value at each physical position.
Phys(vol) ==
  { << [p \in 1..3 |-> vol.origin[p]
          + vol.axes[AxisOf(vol, p)][2] * (x[AxisOf(vol, p)] - 1)],
       vol.data[x] >> : x \in Box(vol.shape) }

\* Reorienting a volume to the axes tgt: the array is permuted and flipped
\* and the transform recomputed, the physical content staying as it was.
Reorient(vol, tgt) ==
  LET src(j) == AxisOf(vol, tgt[j][1])
      new(i) == CHOOSE j \in 1..3 : src(j) = i
      flip(j) == vol.axes[src(j)][2] # tgt[j][2]
      nshape == [j \in 1..3 |-> vol.shape[src(j)]]
      old(x) == [i \in 1..3 |->
                   IF flip(new(i)) THEN vol.shape[i] + 1 - x[new(i)] ELSE x[new(i)]]
      norigin == [p \in 1..3 |->
                   LET i == AxisOf(vol, p)
                   IN IF flip(new(i))
                      THEN vol.origin[p] + vol.axes[i][2] * (vol.shape[i] - 1)
                      ELSE vol.origin[p]]
  IN [shape |-> nshape, axes |-> tgt, origin |-> norigin,
      data |-> [x \in Box(nshape) |-> vol.data[old(x)]],
      header |-> vol.header]

\* The spatial transform of a volume.
Affine(vol) == [shape |-> vol.shape, axes |-> vol.axes, origin |-> vol.origin]

\* img_nii.get_fdata(): the voxel array with its shape.
get_fdata(vol) == [shape |-> vol.shape, vals |-> vol.data]

\* nib.Nifti1Image(arr, affine, header)
Nifti1Image(arr, affine, header) ==
  [shape |-> arr.shape, axes |-> affine.axes, origin |-> affine.origin,
   data |-> arr.vals, header |-> header]

\* img_nii.affine
affine_of(vol) == [axes |-> vol.axes, origin |-> vol.origin]

\* An input scan with orientation code c: intensities differ along the long axis.
InputVol(c) ==
  [shape |-> <<NVox, 1, 1>>, axes |-> ParseCode(c), origin |-> <<0, 0, 0>>,
   data |-> [x \in Box(<<NVox, 1, 1>>) |-> x[1] - 1], header |-> "hdr_in"]

\* A file some earlier run left in the output directory.
StaleVol ==
  [shape |-> <<NVox, 1, 1>>, axes |-> ParseCode(RPI), origin |-> <<0, 0, 0>>,
   data |-> [x \in Box(<<NVox, 1, 1>>) |-> 0], header |-> "hdr_old"]

\* ------------------------------------------------------------ locations
DATA == << <<"data">> >>
OUT == << <<"out">> >>
TMP == << <<"tmp">> >>
MODEL == << <<"model">> >>
None == <<>>

\* ------------------------------------------------------------ command line
\* A parser whose --pred-type takes any value.
choices_unchecked == {"sc-seg", "lesion-seg", "all", "bogus"}

\* choices of --pred-type
choices == {"sc-seg", "lesion-seg", "all"}

\* Values a caller may give for --pred-type.
PredTypes == {"sc-seg", "lesion-seg", "all", "bogus"}

\* ------------------------------------------------------------ model directory
DirEntry(n) == [name |-> n, isdir |-> TRUE]
FileEntry(n) == [name |-> n, isdir |-> FALSE]

\* Listings of the model directory; names are split at '_'.
ModelDirs ==
  { { DirEntry(<<"fold", "0">>), DirEntry(<<"fold", "1">>), DirEntry(<<"fold", "3">>),
      FileEntry(<<"plans.json">>) },
    { DirEntry(<<"fold", "0">>), DirEntry(<<"fold", "1">>), FileEntry(<<"fold", "2">>) },
    { DirEntry(<<"fold", "0">>), DirEntry(<<"fold", "all">>) } }

\* f.startswith('fold_')
StartsWithFold(n) == Len(n) >= 2 /\ n[1] = "fold"

\* int(s): defined on decimal strings only.
IsInt(s) == s \in {"0", "1", "2", "3", "4"}
IntOf(s) ==
  CASE s = "0" -> 0 [] s = "1" -> 1 [] s = "2" -> 2 [] s = "3" -> 3 [] s = "4" -> 4

\* f.split('_')[-1]
LastPart(n) == n[Len(n)]

\* ------------------------------------------------------------ packaging_utils
\* The canonical name of a volume: the channel suffix goes before the extension.
Canon(n) == SubSeq(n, 1, Len(n) - 1) \o <<"_0000", EXT>>

\* The name the inference engine gives the prediction of a canonical volume.
CaseName(c) == SubSeq(c, 1, Len(c) - 2) \o <<EXT>>

\* convert_filenames_to_nnunet_format(path_dataset): a new temporary location
\* holding a copy of every volume under its canonical name.
convert_filenames_to_nnunet_format(f, path_dataset) ==
  Put(f, TMP, [c \in { Canon(n) : n \in Glob(f, path_dataset) } |->
                 f[path_dataset][CaseName(c)]])

\* reorient_to_rpi(path): every working copy is reoriented in place ...
reorient_to_rpi_files(f, path) ==
  [f EXCEPT ![path] = [c \in DOMAIN f[path] |-> Reorient(f[path][c], ParseCode(RPI))]]

\* ... and the original orientation code of each is returned.
reorient_to_rpi_dict(f, path) == [c \in DOMAIN f[path] |-> Code(f[path][c])]

\* reorient_to_original_orientation(path_out, dict): every prediction must have
\* a ledger entry ...
restore_ok(f, path_out, dict) ==
  \A n \in Glob(f, path_out) : Canon(n) \in DOMAIN dict

\* ... and is reoriented in place to the code recorded for it.
reorient_to_original_orientation(f, path_out, dict) ==
  [f EXCEPT ![path_out] =
     [n \in DOMAIN f[path_out] |->
        IF IsNii(n) THEN Reorient(f[path_out][n], ParseCode(dict[Canon(n)]))
        ELSE f[path_out][n]]]

\* ------------------------------------------------------------ inference engine
\* Label patterns along the long axis: every class occurs at every position.
Patterns == { [v \in 1..NVox |-> (v + k) % (MaxLabel + 1)] : k \in 0..MaxLabel }

\* The prediction for a working copy: its geometry, labels q along the long axis.
Prediction(vol, q) ==
  LET long == CHOOSE j \in 1..3 : vol.shape[j] = NVox
  IN [shape |-> vol.shape, axes |-> vol.axes, origin |-> vol.origin,
      data |-> [x \in Box(vol.shape) |-> q[x[long]]], header |-> "hdr_seg"]

\* The engine writes the predictions of the volumes W of source into output.
predictor(f, source, output, W, q) ==
  [f EXCEPT ![output] =
     [n \in DOMAIN f[output] \cup { CaseName(c) : c \in W } |->
        IF \E c \in W : CaseName(c) = n
        THEN Prediction(f[source][Canon(n)], q[Canon(n)])
        ELSE f[output][n]]]

\* ------------------------------------------------------------ label decomposition
\* The split without its second assignment: the lesion is left out of the cord.
sc_seg_cord_only(img) ==
  [shape |-> img.shape,
   vals |-> [x \in DOMAIN img.vals |-> IF img.vals[x] = 1 THEN 1 ELSE 0]]

\* np.zeros_like(img); img_sc_seg[img == 1] = 1; img_sc_seg[img == 2] = 1
sc_seg(img) ==
  [shape |-> img.shape,
   vals |-> [x \in DOMAIN img.vals |->
               IF img.vals[x] = 1 THEN 1 ELSE IF img.vals[x] = 2 THEN 1 ELSE 0]]

\* np.zeros_like(img); img_lesion_seg[img == 2] = 1
lesion_seg(img) ==
  [shape |-> img.shape,
   vals |-> [x \in DOMAIN img.vals |-> IF img.vals[x] = 2 THEN 1 ELSE 0]]

\* The mask saved with a fresh transform and header instead of the prediction's.
sc_image_fresh(img_nii) ==
  Nifti1Image(sc_seg(get_fdata(img_nii)),
              [axes |-> ParseCode(<<"R", "A", "S">>), origin |-> <<0, 0, 0>>],
              "hdr_default")

\* The image saved for a prediction under sc-seg.
sc_image(img_nii) ==
  Nifti1Image(sc_seg(get_fdata(img_nii)), affine_of(img_nii), img_nii.header)

\* The image saved for a prediction under lesion-seg.
lesion_image(img_nii) ==
  Nifti1Image(lesion_seg(get_fdata(img_nii)), affine_of(img_nii), img_nii.header)

\* ------------------------------------------------------------ initial states
\* Orientation codes of the input scans: canonical, and permuted with flips.
SomeCodes == { RPI, <<"A", "S", "L">> }

\* Names an earlier run may have left in the output directory.
StaleNames == { <<"a", "_pred", EXT>>, <<"b", EXT>>, <<"b", "_pred", EXT>> }

\* The dataset directories: between one and n scans, each with a code of codes.
Datasets(codes, n) ==
  UNION { [ { b \o <<EXT>> : b \in S } -> { InputVol(c) : c \in codes } ] :
            S \in { T \in SUBSET BaseNames : Cardinality(T) \in 1..n } }

\* The file systems a run may start from, with the output path of each: the
\* output directory is absent, empty, holds one stale file, or is the dataset.
Starts(codes, n) ==
  { [out |-> OUT, fs |-> (DATA :> d)] : d \in Datasets(codes, n) }
  \cup { [out |-> OUT, fs |-> (DATA :> d) @@ (OUT :> NoFiles)] : d \in Datasets(codes, n) }
  \cup { [out |-> OUT, fs |-> (DATA :> d) @@ (OUT :> (s :> StaleVol))] :
           d \in Datasets(codes, n), s \in StaleNames }
  \cup { [out |-> DATA, fs |-> (DATA :> d)] : d \in Datasets(codes, n) }

InitWith(codes, n, types) ==
  /\ pc = "parse"
  /\ err = "none"
  /\ \E st \in Starts(codes, n), t \in types :
       /\ args = [path_dataset |-> DATA, path_out |-> st.out,
                  path_model |-> MODEL, pred_type |-> t]
       /\ fs = st.fs
       /\ fs0 = st.fs
  /\ model_dir \in ModelDirs
  /\ path_data_tmp = None
  /\ orig_orientation_dict = NoFiles
  /\ folds_avail = {}
  /\ use_folds = {}
  /\ out_folder = None
  /\ pred_files = <<>>
  /\ idx = 0

Init == InitWith(SomeCodes, MaxFiles, PredTypes)

\* One scan in any of the 48 orientations.
InitOrient == InitWith(AllCodes, 1, PredTypes)

\* ------------------------------------------------------------ main()
\* parser.parse_args(): a --pred-type outside the choices ends the program.
ParseArgs ==
  /\ pc = "parse"
  /\ IF args.pred_type \in choices
     THEN pc' = "mkdir" /\ err' = err
     ELSE pc' = "error" /\ err' = "SystemExit"
  /\ UNCHANGED <<args, fs, fs0, model_dir, path_data_tmp, orig_orientation_dict,
                 folds_avail, use_folds, out_folder, pred_files, idx>>

\* if not os.path.exists(args.path_out): os.makedirs(args.path_out)
MakeOutDir ==
  /\ pc = "mkdir"
  /\ fs' = MakeDirs(fs, args.path_out)
  /\ pc' = "convert"
  /\ UNCHANGED <<err, args, fs0, model_dir, path_data_tmp, orig_orientation_dict,
                 folds_avail, use_folds, out_folder, pred_files, idx>>

\* path_data_tmp = convert_filenames_to_nnunet_format(args.path_dataset)
ConvertFilenames ==
  /\ pc = "convert"
  /\ fs' = convert_filenames_to_nnunet_format(fs, args.path_dataset)
  /\ path_data_tmp' = TMP
  /\ pc' = "reorient"
  /\ UNCHANGED <<err, args, fs0, model_dir, orig_orientation_dict,
                 folds_avail, use_folds, out_folder, pred_files, idx>>

\* orig_orientation_dict = reorient_to_rpi(path_data_tmp)
ReorientToRpi ==
  /\ pc = "reorient"
  /\ orig_orientation_dict' = reorient_to_rpi_dict(fs, path_data_tmp)
  /\ fs' = reorient_to_rpi_files(fs, path_data_tmp)
  /\ pc' = "folds"
  /\ UNCHANGED <<err, args, fs0, model_dir, path_data_tmp,
                 folds_avail, use_folds, out_folder, pred_files, idx>>

\* folds_avail = [int(f.split('_')[-1]) for f in os.listdir(path_model)
\*                if f.startswith('fold_')]
\* The list is kept as the set of its elements: its order is that of os.listdir.
ListFolds ==
  /\ pc = "folds"
  /\ LET found == { e \in model_dir : StartsWithFold(e.name) }
     IN IF \A e \in found : IsInt(LastPart(e.name))
        THEN /\ folds_avail' = { IntOf(LastPart(e.name)) : e \in found }
             /\ pc' = "predict"
             /\ err' = err
        ELSE /\ folds_avail' = folds_avail
             /\ pc' = "error"
             /\ err' = "ValueError: invalid literal for int()"
  /\ UNCHANGED <<args, fs, fs0, model_dir, path_data_tmp, orig_orientation_dict,
                 use_folds, out_folder, pred_files, idx>>

\* predictor(...) returns: one prediction per working copy is in path_out.
PredictOk ==
  /\ pc = "predict"
  /\ \E q \in [DOMAIN fs[path_data_tmp] -> Patterns] :
       fs' = predictor(fs, path_data_tmp, args.path_out, DOMAIN fs[path_data_tmp], q)
  /\ use_folds' = folds_avail
  /\ pc' = "delete"
  /\ UNCHANGED <<err, args, fs0, model_dir, path_data_tmp, orig_orientation_dict,
                 folds_avail, out_folder, pred_files, idx>>

\* The failure caught and reported, the run going on.
PredictFailWarned ==
  /\ pc = "predict"
  /\ \E W \in SUBSET DOMAIN fs[path_data_tmp] :
       /\ W # DOMAIN fs[path_data_tmp]
       /\ \E q \in [W -> Patterns] :
            fs' = predictor(fs, path_data_tmp, args.path_out, W, q)
  /\ use_folds' = folds_avail
  /\ pc' = "delete"
  /\ err' = "InferenceError"
  /\ UNCHANGED <<args, fs0, model_dir, path_data_tmp, orig_orientation_dict,
                 folds_avail, out_folder, pred_files, idx>>

\* predictor(...) raises, having written some of the predictions: nothing
\* catches the exception and main() ends with it.
PredictFail ==
  /\ pc = "predict"
  /\ \E W \in SUBSET DOMAIN fs[path_data_tmp] :
       /\ W # DOMAIN fs[path_data_tmp]
       /\ \E q \in [W -> Patterns] :
            fs' = predictor(fs, path_data_tmp, args.path_out, W, q)
  /\ use_folds' = folds_avail
  /\ pc' = "error"
  /\ err' = "InferenceError"
  /\ UNCHANGED <<args, fs0, model_dir, path_data_tmp, orig_orientation_dict,
                 folds_avail, out_folder, pred_files, idx>>

\* The deletion placed right after canonicalization, before the ledger exists.
DeleteTmpEarly ==
  /\ pc = "reorient"
  /\ fs' = Drop(fs, path_data_tmp)
  /\ pc' = "restore"
  /\ UNCHANGED <<err, args, fs0, model_dir, path_data_tmp, orig_orientation_dict,
                 folds_avail, use_folds, out_folder, pred_files, idx>>

\* The deletion followed by the decomposition, the restoration left for later.
DeleteTmpThenSplit ==
  /\ pc = "delete"
  /\ fs' = Drop(fs, path_data_tmp)
  /\ pc' = "select"
  /\ UNCHANGED <<err, args, fs0, model_dir, path_data_tmp, orig_orientation_dict,
                 folds_avail, use_folds, out_folder, pred_files, idx>>

\* os.system('rm -rf {}'.format(path_data_tmp))
DeleteTmp ==
  /\ pc = "delete"
  /\ fs' = Drop(fs, path_data_tmp)
  /\ pc' = "restore"
  /\ UNCHANGED <<err, args, fs0, model_dir, path_data_tmp, orig_orientation_dict,
                 folds_avail, use_folds, out_folder, pred_files, idx>>

\* The restoration given the code of the working copies, not the recorded one.
RestoreToCanonical ==
  /\ pc = "restore"
  /\ IF restore_ok(fs, args.path_out, orig_orientation_dict)
     THEN /\ fs' = reorient_to_original_orientation(fs, args.path_out,
                     [c \in DOMAIN orig_orientation_dict |-> RPI])
          /\ pc' = "select"
          /\ err' = err
     ELSE /\ fs' = fs
          /\ pc' = "error"
          /\ err' = "ConsistencyError"
  /\ UNCHANGED <<args, fs0, model_dir, path_data_tmp, orig_orientation_dict,
                 folds_avail, use_folds, out_folder, pred_files, idx>>

\* reorient_to_original_orientation(args.path_out, orig_orientation_dict)
Restore ==
  /\ pc = "restore"
  /\ IF restore_ok(fs, args.path_out, orig_orientation_dict)
     THEN /\ fs' = reorient_to_original_orientation(fs, args.path_out,
                                                     orig_orientation_dict)
          /\ pc' = "select"
          /\ err' = err
     ELSE /\ fs' = fs
          /\ pc' = "error"
          /\ err' = "ConsistencyError"
  /\ UNCHANGED <<args, fs0, model_dir, path_data_tmp, orig_orientation_dict,
                 folds_avail, use_folds, out_folder, pred_files, idx>>

\* The head of the branch taken for args.pred_type: out_folder, its creation,
\* pred_files = sorted(glob.glob(os.path.join(args.path_out, '*.nii.gz'))); or
\* the ValueError of the last branch.
SelectPolicy ==
  /\ pc = "select"
  /\ IF args.pred_type \in {"all", "sc-seg", "lesion-seg"}
     THEN LET sub == IF args.pred_type = "all" THEN args.path_out
                     ELSE Join(args.path_out, <<args.pred_type>>)
          IN /\ out_folder' = sub
             /\ fs' = IF args.pred_type = "all" THEN fs ELSE MakeDirs(fs, sub)
             /\ pred_files' = [i \in 1..Cardinality(Glob(fs, args.path_out)) |->
                                 Join(args.path_out, Sorted(Glob(fs, args.path_out))[i])]
             /\ idx' = 1
             /\ pc' = "loop"
             /\ err' = err
     ELSE /\ pc' = "error"
          /\ err' = "ValueError: Invalid value for --pred_type"
          /\ UNCHANGED <<out_folder, fs, pred_files, idx>>
  /\ UNCHANGED <<args, fs0, model_dir, path_data_tmp, orig_orientation_dict,
                 folds_avail, use_folds>>

\* os.rename(pred, pred.replace('.nii.gz', '_pred.nii.gz')): the file moves,
\* replacing whatever file had the new name.
RenamePred ==
  /\ pc = "loop" /\ args.pred_type = "all" /\ idx <= Len(pred_files)
  /\ LET pred == pred_files[idx]
         new == ReplacePath(pred, "_pred")
     IN IF /\ Dirname(pred) \in DOMAIN fs
           /\ Basename(pred) \in DOMAIN fs[Dirname(pred)]
           /\ Dirname(new) \in DOMAIN fs
        THEN /\ fs' = WriteFile([fs EXCEPT ![Dirname(pred)] = Drop(@, Basename(pred))],
                                Dirname(new), Basename(new),
                                fs[Dirname(pred)][Basename(pred)])
             /\ idx' = idx + 1
             /\ pc' = pc
             /\ err' = err
        ELSE /\ fs' = fs
             /\ idx' = idx
             /\ pc' = "error"
             /\ err' = "FileNotFoundError"
  /\ UNCHANGED <<args, fs0, model_dir, path_data_tmp, orig_orientation_dict,
                 folds_avail, use_folds, out_folder, pred_files>>

\* One iteration of the sc-seg loop: load, split, save under out_folder.
SplitSc ==
  /\ pc = "loop" /\ args.pred_type = "sc-seg" /\ idx <= Len(pred_files)
  /\ LET pred == pred_files[idx]
         img_nii == fs[Dirname(pred)][Basename(pred)]
         save_name == Replace(Basename(pred), "_pred-sc")
     IN fs' = WriteFile(fs, out_folder, save_name, sc_image(img_nii))
  /\ idx' = idx + 1
  /\ UNCHANGED <<pc, err, args, fs0, model_dir, path_data_tmp, orig_orientation_dict,
                 folds_avail, use_folds, out_folder, pred_files>>

\* One iteration of the lesion-seg loop: load, split, save under out_folder.
SplitLesion ==
  /\ pc = "loop" /\ args.pred_type = "lesion-seg" /\ idx <= Len(pred_files)
  /\ LET pred == pred_files[idx]
         img_nii == fs[Dirname(pred)][Basename(pred)]
         save_name == Replace(Basename(pred), "_pred-lesion")
     IN fs' = WriteFile(fs, out_folder, save_name, lesion_image(img_nii))
  /\ idx' = idx + 1
  /\ UNCHANGED <<pc, err, args, fs0, model_dir, path_data_tmp, orig_orientation_dict,
                 folds_avail, use_folds, out_folder, pred_files>>

\* The loop is over: the location of the results and the time are printed.
Finish ==
  /\ pc = "loop" /\ idx > Len(pred_files)
  /\ pc' = "done"
  /\ UNCHANGED <<err, args, fs, fs0, model_dir, path_data_tmp, orig_orientation_dict,
                 folds_avail, use_folds, out_folder, pred_files, idx>>

Next ==
  \/ ParseArgs \/ MakeOutDir \/ ConvertFilenames \/ ReorientToRpi \/ ListFolds
  \/ PredictOk \/ PredictFail \/ DeleteTmp \/ Restore \/ SelectPolicy
  \/ RenamePred \/ SplitSc \/ SplitLesion \/ Finish

Spec == Init /\ [][Next]_vars

SpecOrient == InitOrient /\ [][Next]_vars

\* ------------------------------------------------------------ properties
\* The volumes of the dataset at the start of the run, by name.
Inputs == DOMAIN fs0[DATA]

\* The name of the result for input n: the suffix once, before the extension.
WithSuffix(n, suffix) == SubSeq(n, 1, Len(n) - 1) \o <<suffix, EXT>>

\* The suffix and the subfolder of a policy.
SuffixOf(t) ==
  CASE t = "all" -> "_pred" [] t = "sc-seg" -> "_pred-sc" [] t = "lesion-seg" -> "_pred-lesion"
FolderOf(t) == IF t = "all" THEN args.path_out ELSE Join(args.path_out, <<t>>)

\* The value a policy keeps for a class index.
Select(t, l) ==
  CASE t = "lesion-seg" -> (IF l = 2 THEN 1 ELSE 0)
    [] t = "sc-seg" -> (IF l \in {1, 2} THEN 1 ELSE 0)
    [] t = "all" -> l

\* The i-th prediction of the loop and the result written for it.
PredOf(f, i) == f[Dirname(pred_files[i])][Basename(pred_files[i])]
ResultOf(f, i) ==
  f[FolderOf(args.pred_type)][WithSuffix(Basename(pred_files[i]), SuffixOf(args.pred_type))]

\* An iteration of the loop over pred_files.
LoopStep == pc = "loop" /\ idx' = idx + 1

\* C1: every iteration of the decomposition loop writes, voxel by voxel, 1 where
\* the prediction is 2 (lesion-seg), 1 where it is 1 or 2 (sc-seg), and the
\* prediction's own value (all); 0 elsewhere.
C1_LabelSelection ==
  [][LoopStep =>
       LET P == PredOf(fs, idx)
           O == ResultOf(fs', idx)
       IN /\ DOMAIN O.data = DOMAIN P.data
          /\ \A v \in DOMAIN P.data : O.data[v] = Select(args.pred_type, P.data[v])]_vars

\* A prediction holding classes 0, 1 and 2 has been split under sc-seg into a
\* mask with exactly as many nonzero voxels as the prediction has of class 1 or 2.
C1_Witness ==
  /\ pc = "done" /\ args.pred_type = "sc-seg"
  /\ \E i \in 1..Len(pred_files) :
       LET P == PredOf(fs, i)
           O == ResultOf(fs, i)
       IN /\ {0, 1, 2} \subseteq { P.data[v] : v \in DOMAIN P.data }
          /\ Cardinality({ v \in DOMAIN O.data : O.data[v] # 0 })
               = Cardinality({ v \in DOMAIN P.data : P.data[v] \in {1, 2} })
          /\ Cardinality({ v \in DOMAIN O.data : O.data[v] # 0 }) = 2

\* C2: under sc-seg and lesion-seg every mask written so far has the shape, the
\* spatial transform and the header of the restored prediction it comes from.
C2_TransformKept ==
  (pc \in {"loop", "done"} /\ args.pred_type \in {"sc-seg", "lesion-seg"}) =>
    \A i \in 1..(idx - 1) :
      /\ Affine(ResultOf(fs, i)) = Affine(PredOf(fs, i))
      /\ ResultOf(fs, i).header = PredOf(fs, i).header

\* A mask has been written for a prediction that is not in the canonical orientation.
C2_Witness ==
  /\ pc = "done" /\ args.pred_type = "lesion-seg"
  /\ \E i \in 1..Len(pred_files) :
       /\ Code(PredOf(fs, i)) # RPI
       /\ Code(ResultOf(fs, i)) = Code(PredOf(fs, i))
       /\ ResultOf(fs, i).header = "hdr_seg"

\* The files of directory d that the run created or changed.
Produced(d) ==
  IF d \notin DOMAIN fs THEN {}
  ELSE { m \in DOMAIN fs[d] :
           d \notin DOMAIN fs0 \/ m \notin DOMAIN fs0[d] \/ fs0[d][m] # fs[d][m] }

\* C3: after a successful run the results of the policy's layout are exactly one
\* per input volume X, named X plus the suffix once (stated for runs whose
\* output directory is not the dataset directory itself).
C3_ResultLayout ==
  (pc = "done" /\ args.path_out # args.path_dataset) =>
    { m \in Produced(FolderOf(args.pred_type)) : IsNii(m) }
      = { WithSuffix(n, SuffixOf(args.pred_type)) : n \in Inputs }

\* C4: with a --pred-type outside sc-seg, lesion-seg and all, the run ends in
\* the parser's error and the file system is as it was at the start.
C4_BadPolicyWritesNothing ==
  args.pred_type \notin {"sc-seg", "lesion-seg", "all"} =>
    /\ fs = fs0
    /\ pc \in {"parse", "error"}
    /\ pc = "error" => err = "SystemExit"

\* The error has been raised for an unrecognized value.
C4_Witness ==
  /\ pc = "error" /\ err = "SystemExit"
  /\ args.pred_type = "bogus"
  /\ fs = fs0

\* The folds of the model directory: the integer suffixes of its subdirectories
\* named fold_<integer>.
FoldDirs ==
  { IntOf(e.name[2]) :
      e \in { x \in model_dir :
                x.isdir /\ Len(x.name) = 2 /\ x.name[1] = "fold" /\ IsInt(x.name[2]) } }

\* C5: discovery never aborts, it selects exactly the folds of the model
\* directory, and the inference engine is called with exactly these.
C5_FoldDiscovery ==
  /\ err # "ValueError: invalid literal for int()"
  /\ pc \in {"predict", "delete", "restore", "select", "loop", "done"} =>
       folds_avail = FoldDirs
  /\ pc \in {"delete", "restore", "select", "loop", "done"} => use_folds = FoldDirs

InDataset(d) == Len(d) >= 1 /\ d[1] = DATA[1]

\* C7: the dataset location holds at every moment exactly the directories and
\* files it held at the start of the run.
C7_SourceUntouched ==
  \A d \in DOMAIN fs \cup DOMAIN fs0 :
    InDataset(d) => (d \in DOMAIN fs /\ d \in DOMAIN fs0 /\ fs[d] = fs0[d])

\* C8: once the inference call has failed, the run has ended with the error and
\* takes no further step; no result folder and no list of predictions exists,
\* and every file of the output directory is as it was at the start or a raw
\* prediction in the canonical orientation.
C8_InferenceFailureFatal ==
  err = "InferenceError" =>
    /\ pc = "error"
    /\ ~ ENABLED Next
    /\ out_folder = None /\ pred_files = <<>>
    /\ DOMAIN fs \subseteq DOMAIN fs0 \cup {args.path_out, path_data_tmp}
    /\ \A n \in DOMAIN fs[args.path_out] :
         \/ /\ args.path_out \in DOMAIN fs0
            /\ n \in DOMAIN fs0[args.path_out]
            /\ fs[args.path_out][n] = fs0[args.path_out][n]
         \/ /\ fs[args.path_out][n].header = "hdr_seg"
            /\ Code(fs[args.path_out][n]) = RPI

\* The inference call failed after writing a prediction.
C8_Witness ==
  /\ err = "InferenceError" /\ pc = "error"
  /\ \E n \in DOMAIN fs[args.path_out] : fs[args.path_out][n].header = "hdr_seg"

\* C9: whenever the temporary location is gone, the ledger holds the original
\* code of every input volume, and the restoration that follows gives every
\* prediction the code of its original with the temporary location absent.
C9_LedgerBeforeDeletion ==
  (path_data_tmp # None /\ path_data_tmp \notin DOMAIN fs) =>
    /\ DOMAIN orig_orientation_dict = { Canon(n) : n \in Inputs }
    /\ \A n \in Inputs : orig_orientation_dict[Canon(n)] = Code(fs0[DATA][n])
    /\ pc = "select" =>
         \A n \in Inputs : Code(fs[args.path_out][n]) = Code(fs0[DATA][n])

\* The temporary location is gone and a prediction of a scan that was not in
\* the canonical orientation has been restored.
C9_Witness ==
  /\ pc = "select"
  /\ path_data_tmp = TMP /\ TMP \notin DOMAIN fs
  /\ \E n \in Inputs :
       /\ Code(fs0[DATA][n]) # RPI
       /\ Code(fs[args.path_out][n]) = Code(fs0[DATA][n])

\* Every input volume has a prediction of the engine in the output directory.
AllPredicted ==
  \A n \in Inputs :
    /\ n \in DOMAIN fs[args.path_out]
    /\ fs[args.path_out][n].header = "hdr_seg"

\* Every prediction has the orientation code of its original scan.
AllRestored ==
  \A n \in Inputs : Code(fs[args.path_out][n]) = Code(fs0[DATA][n])

\* C10: normalization starts with every canonical copy in place, inference with
\* every copy in the canonical orientation, restoration with every prediction
\* written, the decomposition loop with every prediction restored; and an
\* iteration of the loop writes a result with the shape and transform of the
\* prediction it read.
C10_StageOrder ==
  [][/\ (pc = "reorient" /\ pc' # pc) =>
          \A n \in Inputs : Canon(n) \in DOMAIN fs[path_data_tmp]
     /\ (pc = "predict" /\ pc' # pc) =>
          \A n \in Inputs : Code(fs[path_data_tmp][Canon(n)]) = RPI
     /\ (pc = "restore" /\ pc' # pc) => AllPredicted
     /\ (pc = "select" /\ pc' = "loop") => AllPredicted /\ AllRestored
     /\ LoopStep => Affine(ResultOf(fs', idx)) = Affine(PredOf(fs, idx))]_vars

\* A run over two volumes, one of them not in the canonical orientation, has
\* gone through every stage.
C10_Witness ==
  /\ pc = "done"
  /\ Cardinality(Inputs) = 2
  /\ \E n \in Inputs : Code(fs0[DATA][n]) # RPI
  /\ idx = 3

====
